---- MODULE Spec2Model ----
(***************************************************************************)
(* Model of the aptos-sage sandbox core:                                   *)
(*   - OpenRouterService.makeRequest (src/lib/openrouter.ts): the request  *)
(*     loop with 429 handling, back-off and ":free" model fallback;        *)
(*   - SandboxService (src/unnamed/part_001): the simulation registry and  *)
(*     the generateCode / testCode operations, split at their awaits.      *)
(***************************************************************************)
EXTENDS Integers, Sequences, FiniteSets, TLC

\* ------------------------------------------------------------------ bounds
MaxRetries == 2          \* largest `retries` argument explored
MaxObjs == 1             \* simulation objects allocated in one run
MaxCalls == 3            \* service calls (generateCode/testCode) started in one run
MaxRegObjs == 2          \* simulations created in one run of the registry alone
MaxClicks == 2           \* clicks on Optimize / Execute in one run of the view
MaxPairCalls == 2        \* service calls started in one run of two callers
MaxSendCalls == 2        \* makeRequest calls made one after the other
MaxRequests == 3         \* POST requests served by the test route

\* ------------------------------------------------------- program constants
DefaultRetries == 2      \* makeRequest's default `retries`
RateLimited == 429       \* the status makeRequest treats as a rate limit
NaN == -1                \* stands for the NaN that parseInt yields on non-numeric text
NoExit == -1              \* no process result at hand (exit codes are 0..255)
ViewSteps == 6           \* length of the `steps` list of handleTestCode

VARIABLES
  \* --- OpenRouterService.makeRequest, one call
  apiKey,       \* this.apiKey is non-empty
  model,        \* the `model` local, a sequence of identifier segments
  retries,      \* the `retries` argument
  i,            \* the loop counter
  lastError,    \* the `lastError` local: "none" or "429 Too Many Requests"
  sendPc,       \* "idle" | "fetch" | "sleep" | "done"
  delay,        \* the `delay` computed for the pending setTimeout (ms)
  upstream,     \* what the remote endpoint answers to the 1st, 2nd, ... fetch
  calls,        \* number of fetch calls performed
  delays,       \* the delays (ms) actually waited, in order
  modelsUsed,   \* the model sent with each fetch, in order
  sendResult,   \* how makeRequest ended
  sendArgs,     \* the arguments of the makeRequest call, and its ordinal
  \* --- SandboxService
  e2bKey,       \* process.env.E2B_API_KEY is set
  heap,         \* the SandboxSimulation objects, by reference
  simulations,  \* this.simulations: id -> reference (0 = no entry)
  procs,        \* in-flight async invocations of generateCode / testCode
  started,      \* number of service calls started so far
  \* --- SandboxView
  view,         \* the component's state and its handlers in flight
  \* --- POST /api/sandbox/test
  route,        \* the request being served and the response given
  \* --- validateParameters
  validation    \* a call of validateParameters: its arguments and its result

sendVars == <<model, retries, i, lastError, sendPc, delay, upstream, calls,
              delays, modelsUsed, sendResult, sendArgs>>
svcVars == <<e2bKey, heap, simulations, procs, started>>
vars == <<apiKey, model, retries, i, lastError, sendPc, delay, upstream, calls,
          delays, modelsUsed, sendResult, sendArgs, e2bKey, heap, simulations, procs,
          started, view, route, validation>>

\* =========================================================================
\*  OpenRouterService.makeRequest
\* =========================================================================

FreeModel == <<"qwen", ":free">>
StdModel == <<"qwen">>
Models == {FreeModel, StdModel}

EndsWithFreeNever(m) == FALSE

\* model.endsWith(':free')
EndsWithFree(m) == Len(m) > 0 /\ m[Len(m)] = ":free"

\* index of the first ":free" segment, 0 when there is none
FirstFree(m) ==
  IF \E k \in 1..Len(m) : m[k] = ":free"
  THEN CHOOSE k \in 1..Len(m) : m[k] = ":free" /\ \A j \in 1..(k-1) : m[j] /= ":free"
  ELSE 0

\* model.replace(':free', ''): drops the first occurrence only
ReplaceFree(m) ==
  IF FirstFree(m) = 0 THEN m
  ELSE [k \in 1..(Len(m)-1) |-> IF k < FirstFree(m) THEN m[k] ELSE m[k+1]]

\* values of response.headers.get('Retry-After'): "null" is an absent header
HeaderVals == {"null", "", "0", "2", "soon"}

\* JavaScript truthiness of the header value
Truthy(h) == h /= "null" /\ h /= ""

\* parseInt(h, 10)
ParseInt(h) == CASE h = "0" -> 0 [] h = "2" -> 2 [] OTHER -> NaN

\* NaN * 1000 is NaN
TimesThousand(n) == IF n = NaN THEN NaN ELSE n * 1000

\* Math.pow(2, i)
Pow2(n) == 2 ^ n

\* the `delay` of lines 45-48
ComputeDelay(h, n) == IF Truthy(h) THEN TimesThousand(ParseInt(h)) ELSE Pow2(n) * 1000

ResponseOkLax(r) == r.status >= 200 /\ r.status <= 499

\* response.ok
ResponseOk(r) == r.status >= 200 /\ r.status <= 299

\* bodies of a 2xx answer: the `choices` list, reduced to the message contents
Bodies == {<<>>, <<"module code">>, <<"module code", "module draft">>}

Responses ==
  {[status |-> 200, statusText |-> "OK", retryAfter |-> "null", body |-> b] : b \in Bodies}
  \cup {[status |-> RateLimited, statusText |-> "Too Many Requests", retryAfter |-> h, body |-> <<>>] : h \in HeaderVals}
  \cup {[status |-> 404, statusText |-> "Not Found", retryAfter |-> "null", body |-> <<>>],
        [status |-> 500, statusText |-> "Internal Server Error", retryAfter |-> "null", body |-> <<>>]}

NoResult == [kind |-> "none", status |-> 0, statusText |-> "", body |-> <<>>]
Thrown(msg) == [kind |-> msg, status |-> 0, statusText |-> "", body |-> <<>>]

\* `response.choices[0].message.content` of the callers of makeRequest (lines
\* 145, 204, 252, 301, 358, 398, 448): how the caller ends, given how
\* makeRequest ended; `error` is the class of the thrown error
ContentOf(result) ==
  IF result.kind /= "ok"
  THEN [kind |-> "threw", error |-> "Error", value |-> result.kind]
  ELSE IF Len(result.body) = 0
  THEN [kind |-> "threw", error |-> "TypeError",
        value |-> "Cannot read properties of undefined (reading 'message')"]
  ELSE [kind |-> "returned", error |-> "", value |-> result.body[1]]

LoopTestStrict(n, r) == n < r

\* the loop test `i <= retries` of line 26
LoopTest(n, r) == n <= r

IsLastAttemptLate(n, r) == n = r + 1

\* the exhaustion test `i === retries` of line 57
IsLastAttempt(n, r) == n = r

InitSendVars ==
  /\ model \in Models
  /\ retries \in 0..MaxRetries
  /\ upstream \in [1..(MaxRetries + 1) -> Responses]
  /\ i = 0
  /\ lastError = "none"
  /\ sendPc = "idle"
  /\ delay = 0
  /\ calls = 0
  /\ delays = <<>>
  /\ modelsUsed = <<>>
  /\ sendResult = NoResult
  /\ sendArgs = [model |-> model, retries |-> retries, call |-> 1]

KeyMissingNever(key) == FALSE

\* `!this.apiKey` of line 20
KeyMissing(key) == ~key

\* lines 20-26: the credential check and entry into the loop
MakeRequest ==
  /\ sendPc = "idle"
  /\ IF KeyMissing(apiKey)
     THEN /\ sendResult' = Thrown("OpenRouter API key not configured")
          /\ sendPc' = "done"
     ELSE IF LoopTest(i, retries)
     THEN /\ sendPc' = "fetch"
          /\ UNCHANGED sendResult
     ELSE /\ sendResult' = Thrown("OpenRouter API error: request failed after retries")
          /\ sendPc' = "done"
  /\ UNCHANGED <<apiKey, model, retries, i, lastError, delay, upstream, calls, delays, modelsUsed,
                 sendArgs>>

\* lines 27-70: one fetch and the handling of its response
Fetch ==
  /\ sendPc = "fetch"
  /\ calls < Len(upstream)
  /\ LET response == upstream[calls + 1] IN
     /\ calls' = calls + 1
     /\ modelsUsed' = Append(modelsUsed, model)
     /\ IF response.status = RateLimited
        THEN /\ delay' = ComputeDelay(response.retryAfter, i)
             /\ model' = IF EndsWithFree(model) THEN ReplaceFree(model) ELSE model
             /\ IF IsLastAttempt(i, retries)
                THEN /\ sendResult' = Thrown("OpenRouter API error: too many retries after 429")
                     /\ sendPc' = "done"
                ELSE /\ sendPc' = "sleep"
                     /\ UNCHANGED sendResult
        ELSE /\ UNCHANGED <<delay, model>>
             /\ sendPc' = "done"
             /\ IF ~ResponseOk(response)
                THEN sendResult' = [kind |-> "OpenRouter API error", status |-> response.status,
                                    statusText |-> response.statusText, body |-> <<>>]
                ELSE sendResult' = [kind |-> "ok", status |-> response.status,
                                    statusText |-> response.statusText, body |-> response.body]
  /\ UNCHANGED <<apiKey, retries, i, lastError, upstream, delays, sendArgs>>

\* lines 61-63 and the loop header: the timer fires, `continue`, i++, loop test
Sleep ==
  /\ sendPc = "sleep"
  /\ delays' = Append(delays, delay)
  /\ lastError' = "429 Too Many Requests"
  /\ i' = i + 1
  /\ IF LoopTest(i + 1, retries)
     THEN /\ sendPc' = "fetch"
          /\ UNCHANGED sendResult
     ELSE /\ sendResult' = Thrown("429 Too Many Requests")
          /\ sendPc' = "done"
  /\ UNCHANGED <<apiKey, model, retries, delay, upstream, calls, modelsUsed, sendArgs>>

\* the view before anything is created: no simulation in the store, nothing
\* selected, no handler running
NoView == [store |-> "none", selected |-> "none", isExecuting |-> FALSE, handlers |-> <<>>]

\* no request has reached the route, validateParameters has not been called
NoRequest == [pc |-> "idle", code |-> "", type |-> "", id |-> "", status |-> 0,
              success |-> FALSE, result |-> 0, error |-> "", served |-> 0]
NoValidation == [pc |-> "idle", type |-> "", parameters |-> <<>>, valid |-> FALSE, errors |-> <<>>]

FreezeView == view = NoView /\ route = NoRequest /\ validation = NoValidation

FreezeSvc ==
  /\ e2bKey = FALSE
  /\ heap = <<>>
  /\ simulations = <<>>
  /\ procs = <<>>
  /\ started = 0

InitSend ==
  /\ apiKey \in BOOLEAN
  /\ InitSendVars
  /\ FreezeSvc
  /\ FreezeView

NextSend ==
  \/ MakeRequest /\ UNCHANGED <<svcVars, view, route, validation>>
  \/ Fetch /\ UNCHANGED <<svcVars, view, route, validation>>
  \/ Sleep /\ UNCHANGED <<svcVars, view, route, validation>>

SpecSend == InitSend /\ [][NextSend]_vars

\* =========================================================================
\*  SandboxService
\* =========================================================================

Callers == {"a"}
SimIds == {"sim_1", "sim_2"}
Types == {"token", "pool", "vault"}

\* message contents the model endpoint may return (choices[0].message.content)
Contents == {"", "module A", "module B"}

NoRes == [present |-> FALSE, success |-> FALSE, errors |-> <<>>, detailed |-> FALSE,
          warnings |-> <<>>, aiAnalysis |-> ""]

ErrorResNoMessage(msg) == [present |-> TRUE, success |-> FALSE, errors |-> <<>>, detailed |-> FALSE,
                           warnings |-> <<>>, aiAnalysis |-> ""]

\* the object literal of the catch blocks: { success: false, errors: [message] }
ErrorRes(msg) == [present |-> TRUE, success |-> FALSE, errors |-> <<msg>>, detailed |-> FALSE,
                  warnings |-> <<>>, aiAnalysis |-> ""]

\* the object literal of lines 127-133
FullRes(success, errors, warnings, analysis) ==
  [present |-> TRUE, success |-> success, errors |-> errors, detailed |-> TRUE,
   warnings |-> warnings, aiAnalysis |-> analysis]

\* the object literal of createSimulation; executionCount is not a field the
\* service writes, its absence reads as 0
NewSimulation(id, type, parameters, createdAt) ==
  [id |-> id, type |-> type, parameters |-> parameters, code |-> "", status |-> "pending",
   createdAt |-> createdAt, result |-> NoRes, executionCount |-> 0]

WithCodeTouched(simulation, code) ==
  [simulation EXCEPT !.code = code, !.createdAt = simulation.createdAt + 1]

\* `simulation.code = code` of line 54
WithCode(simulation, code) == [simulation EXCEPT !.code = code]

\* ---- parameter records and validateParameters (lines 173-239)
\* `!s || s.length < 1` for a string field
Blank(str) == str = "" \/ Len(str) < 1

\* parseFloat on the numeric strings used below; anything else is NaN
ParseFloat(str) ==
  CASE str = "1000000" -> 1000000
    [] str = "500" -> 500
    [] str = "10" -> 10
    [] str = "0" -> 0
    [] OTHER -> NaN

\* `parseFloat(s) <= 0`: false for NaN
NotPositive(n) == n /= NaN /\ n <= 0

\* `!s || parseFloat(s) <= 0`
BadAmount(str) == str = "" \/ NotPositive(ParseFloat(str))

Check(failed, msg) == IF failed THEN <<msg>> ELSE <<>>

\* the `errors` list of validateParameters
ValidationErrors(type, q) ==
  CASE type = "token" ->
         Check(Blank(q.name), "Token name is required")
         \o Check(Blank(q.symbol) \/ Len(q.symbol) > 10, "Token symbol must be 1-10 characters")
         \o Check(q.decimals < 0 \/ q.decimals > 18, "Decimals must be between 0 and 18")
         \o Check(BadAmount(q.totalSupply), "Total supply must be greater than 0")
    [] type = "pool" ->
         Check(Blank(q.name), "Pool name is required")
         \o Check(q.tokenA = "" \/ q.tokenB = "", "Both tokens are required")
         \o Check(q.tokenA = q.tokenB, "Token A and Token B must be different")
         \o Check(q.fee < 0 \/ q.fee > 100, "Fee must be between 0 and 100")
         \o Check(BadAmount(q.initialLiquidityA), "Initial liquidity A must be greater than 0")
         \o Check(BadAmount(q.initialLiquidityB), "Initial liquidity B must be greater than 0")
    [] OTHER ->
         Check(Blank(q.name), "Vault name is required")
         \o Check(q.token = "", "Token is required")
         \o Check(Blank(q.strategy), "Strategy is required")
         \o Check(q.fee < 0 \/ q.fee > 100, "Fee must be between 0 and 100")
         \o Check(BadAmount(q.minDeposit), "Minimum deposit must be greater than 0")

\* validateParameters(type, parameters)
ValidateParameters(type, q) ==
  [valid |-> Len(ValidationErrors(type, q)) = 0, errors |-> ValidationErrors(type, q)]

DemoToken == [name |-> "Demo", symbol |-> "DMO", decimals |-> 8, totalSupply |-> "1000000"]
DemoPool == [name |-> "Pool", tokenA |-> "APT", tokenB |-> "USDC", fee |-> 30,
             initialLiquidityA |-> "500", initialLiquidityB |-> "500"]
DemoVault == [name |-> "Vault", token |-> "APT", strategy |-> "lend", fee |-> 10,
              minDeposit |-> "10"]

\* a record of each type that passes validateParameters
DemoParameters(type) ==
  CASE type = "token" -> DemoToken [] type = "pool" -> DemoPool [] OTHER -> DemoVault

\* the parameter records a caller may pass to createSimulation
ParameterRecords(type) ==
  CASE type = "token" ->
         {DemoToken,
          [DemoToken EXCEPT !.symbol = "ELEVENCHARS"],
          [DemoToken EXCEPT !.totalSupply = "0"],
          [DemoToken EXCEPT !.totalSupply = "lots"]}
    [] type = "pool" ->
         {DemoPool,
          [DemoPool EXCEPT !.fee = -1],
          [DemoPool EXCEPT !.tokenB = "APT"]}
    [] OTHER ->
         {DemoVault,
          [DemoVault EXCEPT !.minDeposit = "0"]}

\* ---- text handling of lines 121-122
\* a text is a sequence of tokens, "\n" being the line separator
RECURSIVE SplitFrom(_, _, _)
SplitFrom(text, k, cur) ==
  IF k > Len(text) THEN <<cur>>
  ELSE IF text[k] = "\n" THEN <<cur>> \o SplitFrom(text, k + 1, "")
  ELSE SplitFrom(text, k + 1, text[k])

\* text.split('\n')
Split(text) == SplitFrom(text, 1, "")

\* line.trim()
Trim(line) == IF line \in {"", " ", "  "} THEN "" ELSE line

\* line.toLowerCase().includes('warning')
IncludesWarning(line) == line \in {"warning: unused variable", "WARNING: unused alias"}

RECURSIVE FilterNonEmpty(_)
FilterNonEmpty(lines) ==
  IF lines = <<>> THEN <<>>
  ELSE IF Trim(Head(lines)) /= "" THEN <<Head(lines)>> \o FilterNonEmpty(Tail(lines))
  ELSE FilterNonEmpty(Tail(lines))

RECURSIVE FilterWarnings(_)
FilterWarnings(lines) ==
  IF lines = <<>> THEN <<>>
  ELSE IF Trim(Head(lines)) /= "" /\ IncludesWarning(Head(lines))
       THEN <<Head(lines)>> \o FilterWarnings(Tail(lines))
  ELSE FilterWarnings(Tail(lines))

\* line 120
CompileSuccess(output) == output.exitCode = 0
\* line 121
CompileErrors(output) == IF ~CompileSuccess(output) THEN FilterNonEmpty(Split(output.stderr)) ELSE <<>>
\* line 122
CompileWarnings(output) == IF CompileSuccess(output) THEN FilterWarnings(Split(output.stdout)) ELSE <<>>

NoOutput == [exitCode |-> -1, stdout |-> <<>>, stderr |-> <<>>]

\* results of `compileProc.wait`
Outputs ==
  {[exitCode |-> 0, stdout |-> <<"Compiling", "\n", "warning: unused variable", "\n">>, stderr |-> <<>>],
   [exitCode |-> 0, stdout |-> <<>>, stderr |-> <<"warning: unused variable">>],
   [exitCode |-> 1, stdout |-> <<>>,
    stderr |-> <<"error: missing module", "\n", "error: unresolved import">>],
   [exitCode |-> 1, stdout |-> <<"Compiling">>, stderr |-> <<" ", "\n">>]}

StatusOfAlwaysSuccess(success) == "success"

\* `success ? 'success' : 'error'` of line 134
StatusOf(success) == IF success THEN "success" ELSE "error"

\* how a request made through openRouterService ends for its caller
\* (makeRequest followed by `response.choices[0].message.content`)
RequestOutcomes(key) ==
  IF ~key
  THEN {[kind |-> "threw", value |-> "OpenRouter API key not configured", fetches |-> 0]}
  ELSE {[kind |-> "ok", value |-> c, fetches |-> 1] : c \in Contents}
       \cup {[kind |-> "threw", value |-> m, fetches |-> 1] :
               m \in {"OpenRouter API error: too many retries after 429",
                      "OpenRouter API error: 500 Internal Server Error",
                      "Cannot read properties of undefined"}}

IdleProc ==
  [op |-> "none", pc |-> "idle", simulationId |-> "", simulation |-> 0,
   sandbox |-> FALSE, provisions |-> 0, closes |-> 0, staged |-> FALSE,
   output |-> NoOutput, failedAt |-> "none", requests |-> 0, fetches |-> 0,
   execBefore |-> 0, outcome |-> "none", value |-> "", call |-> 0, entered |-> FALSE,
   caught |-> "", closeFailed |-> FALSE, statusBefore |-> "", installExit |-> NoExit]

\* the locals of a call that has just been entered
NewCall(op, id, n) == [IdleProc EXCEPT !.op = op, !.simulationId = id, !.call = n]

FinallyClosesAlways(sb) == TRUE

\* `if (sandbox)` of the finally block
FinallyCloses(sb) == sb

NoCodeNever(code) == FALSE

\* `!simulation.code`
NoCode(code) == code = ""

E2BKeyMissingNever(key) == FALSE

\* `!process.env.E2B_API_KEY` of line 82
E2BKeyMissing(key) == ~key

InitSvc ==
  /\ e2bKey \in BOOLEAN
  /\ heap = <<>>
  /\ simulations = [id \in SimIds |-> 0]
  /\ procs = [c \in Callers |-> IdleProc]
  /\ started = 0

Free(c) == procs[c].pc \in {"idle", "done"}

RefShared(c) == IF procs[c].simulation = 0 THEN 0 ELSE 1

\* the `simulation` local of the call of caller c: the object it fetched
Ref(c) == procs[c].simulation

\* `new Date()` of line 21: the clock, read once per creation, as a tick count
Now == Len(heap) + 1

\* lines 9-26, for a run that creates at most `limit` simulations; `id` is
\* the text that Date.now() and Math.random() produce
CreateSimulationUpTo(limit, id, type, parameters) ==
  /\ Len(heap) < limit
  /\ heap' = Append(heap, NewSimulation(id, type, parameters, Now))
  /\ simulations' = [simulations EXCEPT ![id] = Len(heap) + 1]
  /\ UNCHANGED <<e2bKey, procs, started>>

\* lines 9-26
CreateSimulation(id, type, parameters) == CreateSimulationUpTo(MaxObjs, id, type, parameters)

\* lines 162-165
DeleteSimulation(id) ==
  /\ simulations[id] /= 0
  /\ simulations' = [simulations EXCEPT ![id] = 0]
  /\ UNCHANGED <<e2bKey, heap, procs, started>>

\* lines 167-170
ClearAllSimulations ==
  /\ \E id \in SimIds : simulations[id] /= 0
  /\ simulations' = [id \in SimIds |-> 0]
  /\ UNCHANGED <<e2bKey, heap, procs, started>>

GenerateNotFoundSilent(id, n) ==
  [NewCall("generateCode", id, n) EXCEPT !.pc = "done", !.outcome = "returned"]

\* lines 30-33: generateCode on an id without an entry
GenerateNotFound(id, n) ==
  [NewCall("generateCode", id, n) EXCEPT !.pc = "done", !.outcome = "threw",
                                         !.value = "Simulation not found"]

\* lines 29-35: up to the first await of generateCode, in a run of at most
\* `limit` service calls
GenerateCodeUpTo(limit, c, id) ==
  /\ Free(c)
  /\ started < limit
  /\ started' = started + 1
  /\ LET ref == simulations[id] IN
     IF ref = 0
     THEN /\ procs' = [procs EXCEPT ![c] = GenerateNotFound(id, started + 1)]
          /\ UNCHANGED heap
     ELSE /\ heap' = [heap EXCEPT ![ref].status = "compiling"]
          /\ procs' = [procs EXCEPT ![c] = [NewCall("generateCode", id, started + 1) EXCEPT !.pc = "generate",
                          !.simulation = ref, !.entered = TRUE,
                          !.execBefore = heap[ref].executionCount,
                          !.statusBefore = heap[ref].status]]
  /\ UNCHANGED <<e2bKey, simulations>>

\* lines 29-35
GenerateCode(c, id) == GenerateCodeUpTo(MaxCalls, c, id)

\* lines 40-63: the generation request settles
GenerateSettle(c) ==
  /\ procs[c].pc = "generate"
  /\ \E r \in RequestOutcomes(apiKey) :
       LET ref == Ref(c) IN
       IF r.kind = "ok"
       THEN /\ heap' = [heap EXCEPT ![ref] = WithCode(heap[ref], r.value)]
            /\ procs' = [procs EXCEPT ![c].pc = "done", ![c].outcome = "returned",
                                      ![c].value = r.value, ![c].requests = 1,
                                      ![c].fetches = r.fetches]
       ELSE /\ heap' = [heap EXCEPT ![ref].status = "error", ![ref].result = ErrorRes(r.value)]
            /\ procs' = [procs EXCEPT ![c].pc = "done", ![c].outcome = "threw",
                                      ![c].value = r.value, ![c].requests = 1,
                                      ![c].fetches = r.fetches, ![c].failedAt = "generate",
                                      ![c].caught = r.value]
  /\ UNCHANGED <<e2bKey, simulations, started>>

\* the catch block of testCode (lines 136-141) followed by the finally block
\* up to its await, or, with no sandbox to close, by lines 148-149
CatchAndFinally(c, stage, msg) ==
  LET ref == Ref(c) IN
  /\ heap' = [heap EXCEPT ![ref].status = "error", ![ref].result = ErrorRes(msg)]
  /\ IF FinallyCloses(procs[c].sandbox)
     THEN /\ procs' = [procs EXCEPT ![c].pc = "close", ![c].failedAt = stage, ![c].caught = msg,
                                    ![c].installExit = NoExit]
          /\ UNCHANGED simulations
     ELSE /\ procs' = [procs EXCEPT ![c].pc = "done", ![c].failedAt = stage, ![c].caught = msg,
                                    ![c].outcome = "returned", ![c].installExit = NoExit]
          /\ simulations' = [simulations EXCEPT ![procs[c].simulationId] = ref]

\* lines 67-89: testCode up to its first await, in a run of at most `limit`
\* service calls
TestCodeUpTo(limit, c, id) ==
  /\ Free(c)
  /\ started < limit
  /\ started' = started + 1
  /\ LET ref == simulations[id] IN
     IF ref = 0
     THEN /\ procs' = [procs EXCEPT ![c] = [NewCall("testCode", id, started + 1) EXCEPT !.pc = "done",
                          !.outcome = "threw", !.value = "Simulation not found"]]
          /\ UNCHANGED <<heap, simulations>>
     ELSE IF NoCode(heap[ref].code)
     THEN /\ procs' = [procs EXCEPT ![c] = [NewCall("testCode", id, started + 1) EXCEPT !.pc = "done",
                          !.simulation = ref, !.outcome = "threw",
                          !.value = "No code generated for simulation"]]
          /\ UNCHANGED <<heap, simulations>>
     ELSE LET entered == [NewCall("testCode", id, started + 1) EXCEPT !.simulation = ref,
                             !.entered = TRUE, !.execBefore = heap[ref].executionCount,
                             !.statusBefore = heap[ref].status] IN
          IF E2BKeyMissing(e2bKey)
          THEN LET msg == "E2B_API_KEY is not set in environment variables." IN
               /\ heap' = [heap EXCEPT ![ref].status = "error", ![ref].result = ErrorRes(msg)]
               /\ procs' = [procs EXCEPT ![c] = [entered EXCEPT !.pc = "done", !.failedAt = "credential",
                               !.caught = msg, !.outcome = "returned"]]
               /\ UNCHANGED simulations
          ELSE /\ heap' = [heap EXCEPT ![ref].status = "compiling"]
               /\ procs' = [procs EXCEPT ![c] = [entered EXCEPT !.pc = "create"]]
               /\ UNCHANGED simulations
  /\ UNCHANGED e2bKey

\* lines 67-89
TestCode(c, id) == TestCodeUpTo(MaxCalls, c, id)

\* lines 86-89: Sandbox.create settles
SandboxCreate(c) ==
  /\ procs[c].pc = "create"
  /\ \/ /\ procs' = [procs EXCEPT ![c].pc = "install", ![c].sandbox = TRUE,
                                  ![c].provisions = procs[c].provisions + 1]
        /\ UNCHANGED <<heap, simulations>>
     \/ CatchAndFinally(c, "create", "sandbox provisioning failed")
  /\ UNCHANGED <<e2bKey, started>>

\* lines 92-93: the CLI install process is started and awaited; the value of
\* the await, with the exit code, is not bound to anything: it is at hand
\* (installExit) only until the next statement runs
Install(c) ==
  /\ procs[c].pc = "install"
  /\ \/ /\ \E exit \in {0, 1} : procs' = [procs EXCEPT ![c].pc = "stage", ![c].installExit = exit]
        /\ UNCHANGED <<heap, simulations>>
     \/ CatchAndFinally(c, "install", "install process failed")
  /\ UNCHANGED <<e2bKey, started>>

\* lines 107-111: Move.toml, sources/ and sources/main.move are written
Stage(c) ==
  /\ procs[c].pc = "stage"
  /\ \/ /\ procs' = [procs EXCEPT ![c].pc = "compile", ![c].staged = TRUE,
                                  ![c].installExit = NoExit]
        /\ UNCHANGED <<heap, simulations>>
     \/ CatchAndFinally(c, "stage", "filesystem write failed")
  /\ UNCHANGED <<e2bKey, started>>

\* lines 114-122: the compiler is started and awaited
Compile(c) ==
  /\ procs[c].pc = "compile"
  /\ \/ /\ \E output \in Outputs : procs' = [procs EXCEPT ![c].pc = "analyze", ![c].output = output]
        /\ UNCHANGED <<heap, simulations>>
     \/ CatchAndFinally(c, "compile", "compiler process failed")
  /\ UNCHANGED <<e2bKey, started>>

\* lines 125-134: the analysis request settles
Analyze(c) ==
  /\ procs[c].pc = "analyze"
  /\ \E r \in RequestOutcomes(apiKey) :
       LET ref == Ref(c)
           output == procs[c].output
           counted == [procs EXCEPT ![c].requests = 1, ![c].fetches = r.fetches] IN
       IF r.kind = "ok"
       THEN /\ heap' = [heap EXCEPT
                  ![ref].result = FullRes(CompileSuccess(output), CompileErrors(output),
                                          CompileWarnings(output), r.value),
                  ![ref].status = StatusOf(CompileSuccess(output))]
            /\ procs' = [counted EXCEPT ![c].pc = "close"]
            /\ UNCHANGED simulations
       ELSE /\ heap' = [heap EXCEPT ![ref].status = "error", ![ref].result = ErrorRes(r.value)]
            /\ procs' = [counted EXCEPT ![c].pc = "close", ![c].failedAt = "analyze",
                                        ![c].caught = r.value]
            /\ UNCHANGED simulations
  /\ UNCHANGED <<e2bKey, started>>

\* lines 142-149: sandbox.close() settles; a rejection leaves the finally
\* block as the rejection of testCode
Close(c) ==
  /\ procs[c].pc = "close"
  /\ \/ /\ procs' = [procs EXCEPT ![c].pc = "done", ![c].closes = procs[c].closes + 1,
                                  ![c].outcome = "returned"]
        /\ simulations' = [simulations EXCEPT ![procs[c].simulationId] = procs[c].simulation]
     \/ /\ procs' = [procs EXCEPT ![c].pc = "done", ![c].closes = procs[c].closes + 1,
                                  ![c].outcome = "threw", ![c].value = "sandbox close failed",
                                  ![c].closeFailed = TRUE]
        /\ UNCHANGED simulations
  /\ UNCHANGED <<e2bKey, heap, started>>

FreezeSend ==
  /\ model = StdModel
  /\ retries = DefaultRetries
  /\ upstream = <<>>
  /\ i = 0
  /\ lastError = "none"
  /\ sendPc = "idle"
  /\ delay = 0
  /\ calls = 0
  /\ delays = <<>>
  /\ modelsUsed = <<>>
  /\ sendResult = NoResult
  /\ sendArgs = [model |-> StdModel, retries |-> DefaultRetries, call |-> 0]

Init ==
  /\ apiKey \in BOOLEAN
  /\ InitSvc
  /\ FreezeSend
  /\ FreezeView

Next ==
  \/ \E id \in SimIds, type \in Types :
       CreateSimulation(id, type, DemoParameters(type)) /\ UNCHANGED <<apiKey, sendVars, view, route, validation>>
  \/ \E id \in SimIds : DeleteSimulation(id) /\ UNCHANGED <<apiKey, sendVars, view, route, validation>>
  \/ ClearAllSimulations /\ UNCHANGED <<apiKey, sendVars, view, route, validation>>
  \/ \E c \in Callers, id \in SimIds : GenerateCode(c, id) /\ UNCHANGED <<apiKey, sendVars, view, route, validation>>
  \/ \E c \in Callers : GenerateSettle(c) /\ UNCHANGED <<apiKey, sendVars, view, route, validation>>
  \/ \E c \in Callers, id \in SimIds : TestCode(c, id) /\ UNCHANGED <<apiKey, sendVars, view, route, validation>>
  \/ \E c \in Callers : SandboxCreate(c) /\ UNCHANGED <<apiKey, sendVars, view, route, validation>>
  \/ \E c \in Callers : Install(c) /\ UNCHANGED <<apiKey, sendVars, view, route, validation>>
  \/ \E c \in Callers : Stage(c) /\ UNCHANGED <<apiKey, sendVars, view, route, validation>>
  \/ \E c \in Callers : Compile(c) /\ UNCHANGED <<apiKey, sendVars, view, route, validation>>
  \/ \E c \in Callers : Analyze(c) /\ UNCHANGED <<apiKey, sendVars, view, route, validation>>
  \/ \E c \in Callers : Close(c) /\ UNCHANGED <<apiKey, sendVars, view, route, validation>>

Spec == Init /\ [][Next]_vars

\* the registry alone: createSimulation with any parameter record,
\* deleteSimulation and clearAllSimulations, no generateCode / testCode call
NextRegistry ==
  \/ \E id \in SimIds, type \in Types : \E parameters \in ParameterRecords(type) :
       CreateSimulationUpTo(MaxRegObjs, id, type, parameters) /\ UNCHANGED <<apiKey, sendVars, view, route, validation>>
  \/ \E id \in SimIds : DeleteSimulation(id) /\ UNCHANGED <<apiKey, sendVars, view, route, validation>>
  \/ ClearAllSimulations /\ UNCHANGED <<apiKey, sendVars, view, route, validation>>

SpecRegistry == Init /\ [][NextRegistry]_vars

\* the step in which the call of caller c ends (returns or throws)
Completes(c) ==
  /\ procs'[c].pc = "done"
  /\ (procs[c].pc /= "done" \/ procs'[c].call /= procs[c].call)

\* the simulation object the call of caller c works on, after the step
SimAfter(c) == heap'[procs'[c].simulation]

\* -------------------------------------------------------------------------
\* C1: every testCode call that passes its precondition (simulation found,
\* code non-empty) ends with status success or error and with executionCount
\* one greater than when the call began.
TestCodeCountsAttempt ==
  [][\A c \in Callers :
       (Completes(c) /\ procs'[c].op = "testCode" /\ procs'[c].entered)
       => (/\ SimAfter(c).status \in {"success", "error"}
           /\ SimAfter(c).executionCount = procs'[c].execBefore + 1)]_vars

\* C2: when generateCode returns, the simulation's code is the returned text
\* and its status is pending (not success, generating or compiling).
GenerateEndsPending ==
  [][\A c \in Callers :
       (Completes(c) /\ procs'[c].op = "generateCode" /\ procs'[c].outcome = "returned")
       => (/\ SimAfter(c).code = procs'[c].value
           /\ SimAfter(c).status = "pending")]_vars

\* the transitions of the state machine, by the operation that makes them
AllowedTransition(op, s, t) ==
  \/ /\ op = "generateCode"
     /\ \/ s \in {"pending", "success", "error"} /\ t = "generating"
        \/ s = "generating" /\ t \in {"pending", "error"}
  \/ /\ op = "testCode"
     /\ \/ s \in {"pending", "success", "error"} /\ t = "compiling"
        \/ s = "compiling" /\ t \in {"success", "error"}

\* C3: a simulation starts in pending, and every change of its status is a
\* transition of the state machine made by the operation that owns it:
\* generateCode moves {pending, success, error} -> generating -> {pending,
\* error}, testCode moves {pending, success, error} -> compiling -> {success,
\* error}; in particular generateCode never puts a simulation in compiling.
StatusTransitions ==
  [][/\ \A r \in 1..Len(heap) :
          heap'[r].status /= heap[r].status
          => \E c \in Callers :
               /\ procs'[c] /= procs[c]
               /\ AllowedTransition(procs'[c].op, heap[r].status, heap'[r].status)
     /\ \A r \in (Len(heap) + 1)..Len(heap') : heap'[r].status = "pending"]_vars

SandboxErrorFolded ==
  [][\A c \in Callers :
       (/\ Completes(c)
        /\ procs'[c].op = "testCode"
        /\ procs'[c].failedAt \in {"credential", "create", "install", "stage", "compile"})
       => (/\ procs'[c].outcome = "returned"
           /\ SimAfter(c).status = "error"
           /\ SimAfter(c).result.present
           /\ SimAfter(c).result.success = FALSE
           /\ SimAfter(c).result.errors = <<procs'[c].caught>>)]_vars

\* C6: when sandbox.close() fails, testCode still returns normally and the
\* status and result of the compile outcome are stored in the registry.
TeardownFailureSwallowed ==
  [][\A c \in Callers :
       (Completes(c) /\ procs'[c].op = "testCode" /\ procs'[c].closeFailed)
       => (/\ procs'[c].outcome = "returned"
           /\ simulations'[procs'[c].simulationId] = procs'[c].simulation
           /\ SimAfter(c).status = heap[procs[c].simulation].status
           /\ SimAfter(c).result = heap[procs[c].simulation].result)]_vars

\* C7: when the compiler ran to completion and the analysis request failed,
\* success, errors, warnings and status are those the compiler output
\* determines, as if the analysis had succeeded.
AnalysisFailureHarmless ==
  [][\A c \in Callers :
       (/\ Completes(c)
        /\ procs'[c].op = "testCode"
        /\ procs'[c].output /= NoOutput
        /\ procs'[c].failedAt = "analyze")
       => (/\ SimAfter(c).result.success = CompileSuccess(procs'[c].output)
           /\ SimAfter(c).result.errors = CompileErrors(procs'[c].output)
           /\ SimAfter(c).result.warnings = CompileWarnings(procs'[c].output)
           /\ SimAfter(c).status =
                IF CompileSuccess(procs'[c].output) THEN "success" ELSE "error")]_vars

\* number of leading rate-limit answers of the remote endpoint
RECURSIVE LeadingRateLimits(_)
LeadingRateLimits(s) ==
  IF s = <<>> \/ s[1].status /= RateLimited THEN 0 ELSE 1 + LeadingRateLimits(Tail(s))

\* -------------------------------------------------------------------------
\* C8 (retry law): when the remote endpoint answers the first N fetches with
\* 429 (N <= retries, the boundary N = retries included) and the next one with
\* a 2xx, makeRequest ends by returning that answer's body after exactly N + 1
\* fetches.
RetryLaw ==
  LET N == LeadingRateLimits(upstream) IN
  (/\ sendPc = "done"
   /\ apiKey
   /\ N <= retries
   /\ ResponseOk(upstream[N + 1]))
  => (/\ sendResult.kind = "ok"
      /\ sendResult.body = upstream[N + 1].body
      /\ calls = N + 1)

RetryLawWitness ==
  /\ sendPc = "done"
  /\ apiKey
  /\ retries = 2
  /\ LeadingRateLimits(upstream) = 2
  /\ ResponseOk(upstream[3])
  /\ sendResult.kind = "ok"
  /\ calls = 3

\* C9 (exhaustion law): when the remote endpoint answers every fetch with 429,
\* makeRequest performs exactly retries + 1 fetches and then throws the
\* "too many retries after 429" error, for every retries >= 0.
ExhaustionLaw ==
  (/\ sendPc = "done"
   /\ apiKey
   /\ LeadingRateLimits(upstream) >= retries + 1)
  => (/\ sendResult.kind = "OpenRouter API error: too many retries after 429"
      /\ calls = retries + 1)

ExhaustionLawWitness ==
  /\ sendPc = "done"
  /\ apiKey
  /\ retries = 2
  /\ LeadingRateLimits(upstream) = 3
  /\ calls = 3
  /\ sendResult.kind = "OpenRouter API error: too many retries after 429"

\* C10: a non-429, non-2xx answer on any attempt (the first one, or one that
\* follows rate-limited attempts) ends makeRequest at once with the
\* "OpenRouter API error" carrying that status and status text: the failing
\* fetch is the last one, and only the delays of the earlier 429 answers were
\* waited.
UpstreamErrorImmediate ==
  LET N == LeadingRateLimits(upstream) IN
  (/\ apiKey
   /\ N <= retries
   /\ upstream[N + 1].status /= RateLimited
   /\ (upstream[N + 1].status < 200 \/ upstream[N + 1].status > 299)
   /\ calls >= N + 1)
  => (/\ sendPc = "done"
      /\ sendResult.kind = "OpenRouter API error"
      /\ sendResult.status = upstream[N + 1].status
      /\ sendResult.statusText = upstream[N + 1].statusText
      /\ calls = N + 1
      /\ Len(delays) = N)

UpstreamErrorImmediateWitness ==
  /\ sendPc = "done"
  /\ apiKey
  /\ LeadingRateLimits(upstream) = 1
  /\ upstream[2].status = 500
  /\ sendResult.kind = "OpenRouter API error"
  /\ sendResult.status = 500
  /\ calls = 2
  /\ Len(delays) = 1

\* -------------------------------------------------------------------------
\* C11: without a configured API key makeRequest throws the "API key not
\* configured" error before any fetch: no fetch is performed, no delay is
\* waited and the loop is never entered, whatever `retries` is.
NoKeyNoCall ==
  ~apiKey
  => (/\ calls = 0
      /\ delays = <<>>
      /\ modelsUsed = <<>>
      /\ i = 0
      /\ sendPc \in {"idle", "done"}
      /\ (sendPc = "done" => sendResult.kind = "OpenRouter API key not configured"))

NoKeyNoCallWitness ==
  /\ ~apiKey
  /\ retries = 2
  /\ sendPc = "done"
  /\ sendResult.kind = "OpenRouter API key not configured"
  /\ calls = 0

\* a 429 answer was received among the first n fetches
RateLimitSeen(n) == \E j \in 1..n : upstream[j].status = RateLimited

\* C13: in a makeRequest call started with the ":free" model, every fetch made
\* before the first 429 answer sends the ":free" model and every fetch made
\* after it sends the model without the suffix; the `model` local changes only
\* once a 429 has been received and never goes back.
TierDowngrade ==
  (calls >= 1 /\ modelsUsed[1] = FreeModel)
  => (/\ \A k \in 1..Len(modelsUsed) :
            modelsUsed[k] = IF RateLimitSeen(k - 1) THEN StdModel ELSE FreeModel
      /\ model = IF RateLimitSeen(calls) THEN StdModel ELSE FreeModel)

TierDowngradeWitness ==
  /\ sendPc = "done"
  /\ calls = 3
  /\ modelsUsed = <<FreeModel, StdModel, StdModel>>
  /\ upstream[1].status = RateLimited
  /\ upstream[2].status = RateLimited

\* the Retry-After values that are a duration in seconds
IsDuration(h) == h \in {"0", "2"}
DurationSeconds(h) == IF h = "0" THEN 0 ELSE 2

\* C14: the delay waited after the 429 answer to attempt k (counted from 0) is
\* the Retry-After duration when the answer supplies one (0 included) and
\* 2^k seconds otherwise.
BackoffDelay ==
  \A n \in 1..Len(delays) :
    delays[n] = IF IsDuration(upstream[n].retryAfter)
                THEN DurationSeconds(upstream[n].retryAfter) * 1000
                ELSE (2 ^ (n - 1)) * 1000

\* the step in which caller c enters a call (up to its first await)
Starts(c) == procs'[c].call /= procs[c].call

\* -------------------------------------------------------------------------
\* C12: generateCode on a pending simulation, with no OpenRouter API key
\* configured, fails with the "API key not configured" error, performs no
\* fetch, and leaves the simulation's status pending.
GenerateWithoutKey ==
  [][\A c \in Callers :
       (/\ Completes(c)
        /\ procs'[c].op = "generateCode"
        /\ procs'[c].entered
        /\ procs'[c].statusBefore = "pending"
        /\ ~apiKey)
       => (/\ procs'[c].outcome = "threw"
           /\ procs'[c].value = "OpenRouter API key not configured"
           /\ procs'[c].fetches = 0
           /\ SimAfter(c).status = "pending")]_vars

\* C15: createSimulation with a valid parameter record appends and stores a
\* simulation with status pending, empty code, executionCount 0 and no
\* result, under an id that no simulation created earlier (deleted ones
\* included) has.
CreateStoresFresh ==
  [][Len(heap') > Len(heap)
     => LET new == heap'[Len(heap')] IN
        ValidateParameters(new.type, new.parameters).valid
        => (/\ new.status = "pending"
            /\ new.code = ""
            /\ new.executionCount = 0
            /\ ~new.result.present
            /\ simulations'[new.id] = Len(heap')
            /\ \A r \in 1..Len(heap) : heap[r].id /= new.id)]_vars

\* C16: createSimulation with a parameter record that fails validation adds
\* no simulation: every simulation that a step adds to the registry has
\* parameters that validateParameters accepts.
CreateRejectsInvalid ==
  [][Len(heap') > Len(heap)
     => ValidateParameters(heap'[Len(heap')].type, heap'[Len(heap')].parameters).valid]_vars

\* C17: when the generation request of generateCode fails, the simulation
\* ends with status error and a result with success false and exactly one
\* error, the message of the failure, and generateCode throws that same error.
GenerateFailureRecorded ==
  [][\A c \in Callers :
       (Completes(c) /\ procs'[c].op = "generateCode" /\ procs'[c].failedAt = "generate")
       => (/\ SimAfter(c).status = "error"
           /\ SimAfter(c).result.present
           /\ SimAfter(c).result.success = FALSE
           /\ Len(SimAfter(c).result.errors) = 1
           /\ SimAfter(c).result.errors[1] = procs'[c].caught
           /\ procs'[c].outcome = "threw"
           /\ procs'[c].value = procs'[c].caught)]_vars

GenerateFailureRecordedWitness ==
  \E c \in Callers :
    /\ procs[c].op = "generateCode"
    /\ procs[c].pc = "done"
    /\ procs[c].failedAt = "generate"
    /\ procs[c].caught = "OpenRouter API error: 500 Internal Server Error"
    /\ heap[procs[c].simulation].status = "error"

\* C18: testCode on an id without an entry throws "Simulation not found",
\* and on a simulation whose code is empty throws "No code generated for
\* simulation"; in both cases no sandbox is provisioned, no request is made
\* and neither the simulations nor the registry map change.
TestCodePrecondition ==
  [][\A c \in Callers, id \in SimIds :
       (/\ Starts(c)
        /\ procs'[c].op = "testCode"
        /\ procs'[c].simulationId = id
        /\ (simulations[id] = 0 \/ heap[simulations[id]].code = ""))
       => (/\ procs'[c].pc = "done"
           /\ procs'[c].outcome = "threw"
           /\ procs'[c].value = IF simulations[id] = 0 THEN "Simulation not found"
                                ELSE "No code generated for simulation"
           /\ procs'[c].provisions = 0
           /\ procs'[c].requests = 0
           /\ heap' = heap
           /\ simulations' = simulations)]_vars

TestCodePreconditionWitness ==
  \E c \in Callers :
    /\ procs[c].op = "testCode"
    /\ procs[c].pc = "done"
    /\ procs[c].value = "No code generated for simulation"
    /\ simulations[procs[c].simulationId] /= 0
    /\ heap[simulations[procs[c].simulationId]].status = "pending"

\* C19: generateCode on an id without an entry (never created, or deleted)
\* throws "Simulation not found", makes no request and changes neither the
\* simulations nor the registry map.
GenerateNotFoundLeavesRegistry ==
  [][\A c \in Callers, id \in SimIds :
       (/\ Starts(c)
        /\ procs'[c].op = "generateCode"
        /\ procs'[c].simulationId = id
        /\ simulations[id] = 0)
       => (/\ procs'[c].pc = "done"
           /\ procs'[c].outcome = "threw"
           /\ procs'[c].value = "Simulation not found"
           /\ procs'[c].requests = 0
           /\ heap' = heap
           /\ simulations' = simulations)]_vars

\* generateCode was called for the id of a simulation that had been deleted
GenerateNotFoundLeavesRegistryWitness ==
  \E c \in Callers :
    /\ procs[c].op = "generateCode"
    /\ procs[c].pc = "done"
    /\ procs[c].value = "Simulation not found"
    /\ simulations[procs[c].simulationId] = 0
    /\ \E r \in 1..Len(heap) : heap[r].id = procs[c].simulationId

\* C20: a simulation whose status is error has a result whose error list has
\* at least one element, however the error was reached.
ErrorCarriesMessage ==
  \A r \in 1..Len(heap) :
    heap[r].status = "error"
    => (heap[r].result.present /\ Len(heap[r].result.errors) >= 1)

\* -------------------------------------------------------------------------
\* C21: a simulation has a result exactly when its status is success or
\* error; while it is pending or compiling (a first cycle or a re-run on a
\* simulation that already had a verdict) it has none.
ResultIffVerdict ==
  \A r \in 1..Len(heap) :
    heap[r].result.present <=> heap[r].status \in {"success", "error"}

\* the step ends an attempt of testCode on the simulation r (one that passed
\* the precondition)
CompletesAttemptOn(r) ==
  \E c \in Callers :
    /\ Completes(c)
    /\ procs'[c].op = "testCode"
    /\ procs'[c].entered
    /\ procs'[c].simulation = r

\* C22: executionCount starts at 0 and counts the completed testCode
\* attempts: a step that ends an attempt on a simulation adds one to its
\* executionCount, and every other step (generateCode, a testCode rejected at
\* its precondition, registry operations) leaves it unchanged.
ExecutionCountCounts ==
  [][/\ \A r \in 1..Len(heap) :
          heap'[r].executionCount =
            heap[r].executionCount + (IF CompletesAttemptOn(r) THEN 1 ELSE 0)
     /\ \A r \in (Len(heap) + 1)..Len(heap') : heap'[r].executionCount = 0]_vars

\* -------------------------------------------------------------------------
\* C23: the id, type, parameters and createdAt of a simulation never change
\* after its creation: generateCode and testCode, successful or failed, leave
\* the four fields as createSimulation set them.
IdentityFieldsFrozen ==
  [][\A r \in 1..Len(heap) :
       /\ heap'[r].id = heap[r].id
       /\ heap'[r].type = heap[r].type
       /\ heap'[r].parameters = heap[r].parameters
       /\ heap'[r].createdAt = heap[r].createdAt]_vars

\* a simulation that went through a successful generateCode and a completed
\* testCode still has the fields of its creation
IdentityFieldsFrozenWitness ==
  \E c \in Callers :
    /\ procs[c].op = "testCode"
    /\ procs[c].pc = "done"
    /\ procs[c].entered
    /\ procs[c].output /= NoOutput
    /\ LET sim == heap[procs[c].simulation] IN
       /\ sim.code /= ""
       /\ sim.status = "success"
       /\ sim.id = procs[c].simulationId
       /\ sim.parameters = DemoParameters(sim.type)
       /\ sim.createdAt = procs[c].simulation

\* -------------------------------------------------------------------------
\* what the runtime guarantees of a testCode / generateCode call: the
\* requests that the SDK or the endpoint answers (provisioning, file writes,
\* the generation and analysis requests, close) settle.  The waits of lines
\* 93 and 118 are for processes that run inside the sandbox; testCode sets no
\* timer on them, so nothing guarantees that Install or Compile is ever taken.
Fairness ==
  \A c \in Callers :
    /\ WF_vars(GenerateSettle(c) /\ UNCHANGED <<apiKey, sendVars, view, route, validation>>)
    /\ WF_vars(SandboxCreate(c) /\ UNCHANGED <<apiKey, sendVars, view, route, validation>>)
    /\ WF_vars(Stage(c) /\ UNCHANGED <<apiKey, sendVars, view, route, validation>>)
    /\ WF_vars(Analyze(c) /\ UNCHANGED <<apiKey, sendVars, view, route, validation>>)
    /\ WF_vars(Close(c) /\ UNCHANGED <<apiKey, sendVars, view, route, validation>>)

SpecLive == Init /\ [][Next]_vars /\ Fairness

\* C24: every testCode call that passed its precondition eventually ends,
\* with status success or error and its sandbox closed, also when the install
\* or the compiler process never exits.
TestCodeTerminates ==
  \A c \in Callers :
    (procs[c].op = "testCode" /\ procs[c].entered)
    ~> (/\ procs[c].op = "testCode"
        /\ procs[c].entered
        /\ procs[c].pc = "done"
        /\ heap[procs[c].simulation].status \in {"success", "error"}
        /\ procs[c].closes = procs[c].provisions)

\* =========================================================================
\*  SandboxView: the Optimize / Execute controls of one simulation
\* =========================================================================
\* view.store is the status of the simulation in the app store, written by
\* updateSimulation; view.selected is the status held by the component's
\* `selectedSimulation` copy; a handler is [op, pc], pc = 0 once it has ended.

InFlight(h) == view.handlers[h].pc > 0

\* `disabled={selectedSimulation.status === 'compiling'}` of the Optimize button
OptimizeEnabled == view.selected /= "none" /\ view.selected /= "compiling"

\* `disabled={isExecuting || selectedSimulation.status === 'compiling'}` of
\* the Execute button (rendered when the simulation has code, which the
\* template of handleCreateSimulation gives it)
ExecuteEnabled == view.selected /= "none" /\ ~view.isExecuting /\ view.selected /= "compiling"

\* handleCreateSimulation: addSimulation and setSelectedSimulation
HandleCreateSimulation ==
  /\ view.store = "none"
  /\ view' = [view EXCEPT !.store = "pending", !.selected = "pending"]

\* a click on the simulation in the list: setSelectedSimulation(simulation)
\* with the object of the store
SelectSimulation ==
  /\ view.store /= "none"
  /\ view' = [view EXCEPT !.selected = view.store]

\* a click on Optimize: handleGenerateCode up to its await
HandleGenerateCode ==
  /\ OptimizeEnabled
  /\ Len(view.handlers) < MaxClicks
  /\ view' = [view EXCEPT !.store = "compiling",
                          !.handlers = Append(@, [op |-> "generate", pc |-> 1])]

\* the timer of handleGenerateCode fires: code and status are stored
GenerateTimer(h) ==
  /\ InFlight(h)
  /\ view.handlers[h].op = "generate"
  /\ view' = [view EXCEPT !.store = "success", !.handlers[h].pc = 0]

\* a click on Execute: handleTestCode up to its first await
HandleTestCode ==
  /\ ExecuteEnabled
  /\ Len(view.handlers) < MaxClicks
  /\ view' = [view EXCEPT !.isExecuting = TRUE, !.store = "compiling",
                          !.handlers = Append(@, [op |-> "test", pc |-> 1])]

\* a timer of handleTestCode fires: the compile delay, then one per step; after
\* the last one the result is stored, the selected copy updated and, in the
\* finally block, isExecuting reset
TestTimer(h) ==
  /\ InFlight(h)
  /\ view.handlers[h].op = "test"
  /\ IF view.handlers[h].pc <= ViewSteps
     THEN view' = [view EXCEPT !.handlers[h].pc = @ + 1]
     ELSE \E success_rate \in BOOLEAN :
            LET status == IF success_rate THEN "success" ELSE "error" IN
            view' = [view EXCEPT !.store = status,
                                 !.selected = IF @ = "none" THEN @ ELSE status,
                                 !.isExecuting = FALSE,
                                 !.handlers[h].pc = 0]

InitView ==
  /\ apiKey = FALSE
  /\ FreezeSend
  /\ FreezeSvc
  /\ FreezeView

NextView ==
  \/ HandleCreateSimulation /\ UNCHANGED <<apiKey, sendVars, svcVars, route, validation>>
  \/ SelectSimulation /\ UNCHANGED <<apiKey, sendVars, svcVars, route, validation>>
  \/ HandleGenerateCode /\ UNCHANGED <<apiKey, sendVars, svcVars, route, validation>>
  \/ \E h \in 1..Len(view.handlers) : GenerateTimer(h) /\ UNCHANGED <<apiKey, sendVars, svcVars, route, validation>>
  \/ HandleTestCode /\ UNCHANGED <<apiKey, sendVars, svcVars, route, validation>>
  \/ \E h \in 1..Len(view.handlers) : TestTimer(h) /\ UNCHANGED <<apiKey, sendVars, svcVars, route, validation>>

SpecView == InitView /\ [][NextView]_vars

\* -------------------------------------------------------------------------
\* C25: for one simulation, a compile-and-analyze (Execute) is never in
\* flight together with another one or with a generate (Optimize): the
\* controls of the view serialize the operations on the simulation.
SerializedPerSimulation ==
  \A h1, h2 \in 1..Len(view.handlers) :
    (h1 /= h2 /\ InFlight(h1) /\ InFlight(h2))
    => (view.handlers[h1].op /= "test" /\ view.handlers[h2].op /= "test")

\* -------------------------------------------------------------------------
\* C26: when the install process of testCode ends with a non-zero exit code,
\* the attempt fails there: the next step of the call records the install
\* failure (status error, one error) and heads to the teardown; nothing is
\* staged and the compiler is not started.
InstallFailureFatal ==
  [][\A c \in Callers :
       (/\ procs[c].pc = "stage"
        /\ procs[c].installExit /= 0
        /\ procs'[c] /= procs[c])
       => (/\ procs'[c].pc = "close"
           /\ procs'[c].failedAt = "install"
           /\ ~procs'[c].staged
           /\ procs'[c].output = NoOutput
           /\ SimAfter(c).status = "error"
           /\ Len(SimAfter(c).result.errors) = 1)]_vars

\* the lines of a text that are not the empty string, in order
NonEmptyLines(text) == SelectSeq(Split(text), LAMBDA line : line /= "")

\* the lines of a text that contain "warning" in any letter case, in order
WarningLines(text) == SelectSeq(Split(text), IncludesWarning)

\* -------------------------------------------------------------------------
\* C27: after a testCode call whose compiler ran to completion, result.success
\* is true exactly when the exit code is 0; with a non-zero exit code the
\* errors are the non-empty lines of stderr in order and there are no
\* warnings; with exit code 0 there are no errors and the warnings are the
\* lines of stdout that contain "warning", in order.
CompileClassification ==
  [][\A c \in Callers :
       (Completes(c) /\ procs'[c].op = "testCode" /\ procs'[c].output /= NoOutput)
       => LET res == SimAfter(c).result
              out == procs'[c].output IN
          /\ res.success = (out.exitCode = 0)
          /\ out.exitCode /= 0
             => (res.errors = NonEmptyLines(out.stderr) /\ res.warnings = <<>>)
          /\ out.exitCode = 0
             => (res.errors = <<>> /\ res.warnings = WarningLines(out.stdout))]_vars

\* -------------------------------------------------------------------------
\* C28: a testCode call that passed its precondition while E2B_API_KEY is not
\* set ends in its first step: no sandbox is provisioned, none is closed, no
\* analysis request is made, and the attempt is recorded as failed with the
\* one message that names the missing key.
MissingSandboxKeyFailsFast ==
  [][\A c \in Callers :
       (Starts(c) /\ procs'[c].op = "testCode" /\ procs'[c].entered /\ ~e2bKey)
       => (/\ procs'[c].pc = "done"
           /\ procs'[c].provisions = 0
           /\ procs'[c].closes = 0
           /\ procs'[c].requests = 0
           /\ ~procs'[c].sandbox
           /\ SimAfter(c).status = "error"
           /\ SimAfter(c).result.success = FALSE
           /\ SimAfter(c).result.errors =
                <<"E2B_API_KEY is not set in environment variables.">>)]_vars

MissingSandboxKeyFailsFastWitness ==
  /\ ~e2bKey
  /\ \E c \in Callers :
       /\ procs[c].op = "testCode"
       /\ procs[c].entered
       /\ procs[c].pc = "done"
       /\ procs[c].failedAt = "credential"
       /\ procs[c].provisions = 0
       /\ heap[procs[c].simulation].status = "error"

\* -------------------------------------------------------------------------
\* C29: when makeRequest ends with a 2xx answer, its caller returns the
\* message content of the first choice of that answer, unchanged; when the
\* answer has no choice, the caller fails with a MalformedResponseError and
\* with no other kind of error.
FirstChoiceOrMalformed ==
  (sendPc = "done" /\ sendResult.kind = "ok")
  => LET out == ContentOf(sendResult)
         answer == upstream[calls] IN
     IF Len(answer.body) >= 1
     THEN out.kind = "returned" /\ out.value = answer.body[1]
     ELSE out.kind = "threw" /\ out.error = "MalformedResponseError"

\* the step ends a testCode call whose compiler exited with code 0, on the
\* simulation r
CompiledCleanOn(r) ==
  \E c \in Callers :
    /\ procs'[c] /= procs[c]
    /\ procs'[c].op = "testCode"
    /\ procs'[c].simulation = r
    /\ procs'[c].output /= NoOutput
    /\ procs'[c].output.exitCode = 0

\* -------------------------------------------------------------------------
\* C30: a simulation in status success has a result with success = true; when
\* a testCode attempt ends, the status is success if result.success is true
\* and error otherwise; and the only step that moves a simulation into
\* success is one of a testCode call whose compiler exited with code 0.
SuccessMeansCompiled ==
  [][/\ \A r \in 1..Len(heap') :
          heap'[r].status = "success"
          => (heap'[r].result.present /\ heap'[r].result.success)
     /\ \A c \in Callers :
          (Completes(c) /\ procs'[c].op = "testCode" /\ procs'[c].entered)
          => SimAfter(c).status = (IF SimAfter(c).result.success THEN "success" ELSE "error")
     /\ \A r \in 1..Len(heap) :
          (heap'[r].status = "success" /\ heap[r].status /= "success")
          => CompiledCleanOn(r)]_vars

SuccessMeansCompiledWitness ==
  \E c \in Callers :
    /\ procs[c].op = "testCode"
    /\ procs[c].pc = "done"
    /\ procs[c].output /= NoOutput
    /\ procs[c].output.exitCode = 0
    /\ procs[c].failedAt = "none"
    /\ heap[procs[c].simulation].status = "success"
    /\ heap[procs[c].simulation].result.success

\* -------------------------------------------------------------------------
\* C31: a simulation handed to a caller is a snapshot.  createSimulation,
\* getSimulation and getAllSimulations return the object the registry holds
\* (heap[r] is what every holder of the reference r sees), so the claim is
\* that no step of generateCode or testCode changes an existing object in
\* place.
HandedOutIsSnapshot ==
  [][\A r \in 1..Len(heap) : heap'[r] = heap[r]]_vars

\* -------------------------------------------------------------------------
\* C36: an id that deleteSimulation or clearAllSimulations removed stays
\* absent from the registry: the only step that gives an absent id an entry is
\* a createSimulation, never a generateCode or testCode call that was in
\* flight at the removal and completes afterwards.
RemovedStaysRemoved ==
  [][\A id \in SimIds :
       (simulations[id] = 0 /\ simulations'[id] /= 0) => Len(heap') > Len(heap)]_vars

\* -------------------------------------------------------------------------
\* C37: a result with success = true, and the status success, stand for the
\* simulation's current code: a step that replaces the code leaves neither a
\* successful result nor the status success behind.
VerdictIsOfCurrentCode ==
  [][\A r \in 1..Len(heap) :
       heap'[r].code /= heap[r].code
       => (/\ ~(heap'[r].result.present /\ heap'[r].result.success)
           /\ heap'[r].status /= "success")]_vars

\* -------------------------------------------------------------------------
\* C40: in testCode the sandbox is closed before the analysis request is
\* made (no sandbox is open while the request is outstanding), and the files
\* are staged before the compiler is started.
ReleasedBeforeAnalysis ==
  \A c \in Callers :
    /\ procs[c].pc = "analyze" => (~procs[c].sandbox \/ procs[c].closes = procs[c].provisions)
    /\ procs[c].pc \in {"compile", "analyze"} => procs[c].staged

\* -------------------------------------------------------------------------
\* C38: with a configured key, whatever the endpoint answers, makeRequest
\* makes at most retries + 1 fetches and at least one before it ends; it has
\* waited one delay after every fetch but the latest while it runs, and
\* exactly one between consecutive fetches and none after the last once it
\* has ended.
BoundedAttempts ==
  apiKey
  => (/\ calls <= retries + 1
      /\ Len(delays) <= calls
      /\ (sendPc = "fetch" => Len(delays) = calls)
      /\ (sendPc = "sleep" => Len(delays) = calls - 1)
      /\ (sendPc = "done" => (calls >= 1 /\ Len(delays) = calls - 1)))

\* a call that was rate limited once, then failed for another reason
BoundedAttemptsWitness ==
  /\ apiKey
  /\ sendPc = "done"
  /\ retries = 2
  /\ calls = 2
  /\ Len(delays) = 1
  /\ upstream[1].status = RateLimited
  /\ upstream[2].status = 404

\* =========================================================================
\*  SandboxService with two callers and two simulations
\* =========================================================================
PairCallers == {"a", "b"}

\* the registry after createSimulation('token', ...), a generateCode on it
\* that returned "module A" (the status is left at compiling) and
\* createSimulation('pool', ...)
PairHeap ==
  <<[NewSimulation("sim_1", "token", DemoToken, 1) EXCEPT !.code = "module A",
                                                          !.status = "compiling"],
    NewSimulation("sim_2", "pool", DemoPool, 2)>>

InitPair ==
  /\ apiKey = TRUE
  /\ e2bKey = TRUE
  /\ heap = PairHeap
  /\ simulations = [id \in SimIds |-> IF id = "sim_1" THEN 1 ELSE 2]
  /\ procs = [c \in PairCallers |-> IdleProc]
  /\ started = 0
  /\ FreezeSend
  /\ FreezeView

\* a step of the call that caller c has in flight
Resume(c) ==
  \/ GenerateSettle(c)
  \/ SandboxCreate(c)
  \/ Install(c)
  \/ Stage(c)
  \/ Compile(c)
  \/ Analyze(c)
  \/ Close(c)

NextPair ==
  \/ \E c \in PairCallers, id \in SimIds :
       GenerateCodeUpTo(MaxPairCalls, c, id) /\ UNCHANGED <<apiKey, sendVars, view, route, validation>>
  \/ \E c \in PairCallers, id \in SimIds :
       TestCodeUpTo(MaxPairCalls, c, id) /\ UNCHANGED <<apiKey, sendVars, view, route, validation>>
  \/ \E c \in PairCallers : Resume(c) /\ UNCHANGED <<apiKey, sendVars, view, route, validation>>

SpecPair == InitPair /\ [][NextPair]_vars

\* -------------------------------------------------------------------------
\* C32: a step of generateCode or testCode changes no simulation other than
\* the one its call works on, whatever calls on other simulations are in
\* flight; and a call in flight never waits for another one: its next step
\* can always be taken.
OthersUntouched ==
  [][/\ \A r \in 1..Len(heap) :
          heap'[r] /= heap[r]
          => \E c \in PairCallers : procs'[c] /= procs[c] /\ procs'[c].simulation = r
     /\ \A id \in SimIds :
          simulations'[id] /= simulations[id]
          => \E c \in PairCallers : procs'[c] /= procs[c] /\ procs'[c].simulationId = id
     /\ \A c \in PairCallers :
          ~Free(c) => ENABLED (Resume(c) /\ UNCHANGED <<apiKey, sendVars, view, route, validation>>)]_vars

\* calls on two different simulations are in flight together, one in its
\* sandbox and one waiting for its generation request
OthersUntouchedWitness ==
  /\ procs["a"].pc \in {"compile", "analyze"}
  /\ procs["b"].pc = "generate"
  /\ procs["a"].simulation /= procs["b"].simulation
  /\ heap[procs["b"].simulation] = [PairHeap[2] EXCEPT !.status = "compiling"]
  /\ heap[procs["a"].simulation].code = "module A"

\* =========================================================================
\*  OpenRouterService.makeRequest, called more than once
\* =========================================================================
InitialModelSticky(argument, previous) == previous

\* the `model` parameter of line 17: the local of a new call starts as the
\* argument, whatever value the local of an earlier call ended with
InitialModel(argument, previous) == argument

\* a further call of makeRequest on the same service object, made after, or
\* while, an earlier call (whose frame is then followed no more); the endpoint
\* answers its fetches as scripted in `upstream`, from the first answer on
MakeRequestAgain ==
  /\ sendPc /= "idle"
  /\ sendArgs.call < MaxSendCalls
  /\ \E m \in Models, r \in 0..MaxRetries :
       /\ sendArgs' = [model |-> m, retries |-> r, call |-> sendArgs.call + 1]
       /\ model' = InitialModel(m, model)
       /\ retries' = r
  /\ i' = 0
  /\ lastError' = "none"
  /\ delay' = 0
  /\ calls' = 0
  /\ delays' = <<>>
  /\ modelsUsed' = <<>>
  /\ sendResult' = NoResult
  /\ sendPc' = "idle"
  /\ UNCHANGED <<apiKey, upstream>>

NextSendAgain ==
  \/ MakeRequest /\ UNCHANGED <<svcVars, view, route, validation>>
  \/ Fetch /\ UNCHANGED <<svcVars, view, route, validation>>
  \/ Sleep /\ UNCHANGED <<svcVars, view, route, validation>>
  \/ MakeRequestAgain /\ UNCHANGED <<svcVars, view, route, validation>>

SpecSendAgain == InitSend /\ [][NextSendAgain]_vars

\* what a call with model m at attempt n (of retries r) sends, waits and ends
\* with, as a function of the answers alone
RECURSIVE Replay(_, _, _, _)
Replay(m, r, n, answers) ==
  LET response == answers[n + 1] IN
  IF response.status = RateLimited
  THEN IF n = r
       THEN [modelsUsed |-> <<m>>, delays |-> <<>>,
             result |-> Thrown("OpenRouter API error: too many retries after 429")]
       ELSE LET rest == Replay(IF m = FreeModel THEN StdModel ELSE m, r, n + 1, answers) IN
            [modelsUsed |-> <<m>> \o rest.modelsUsed,
             delays |-> <<ComputeDelay(response.retryAfter, n)>> \o rest.delays,
             result |-> rest.result]
  ELSE [modelsUsed |-> <<m>>, delays |-> <<>>,
        result |-> IF response.status >= 200 /\ response.status <= 299
                   THEN [kind |-> "ok", status |-> response.status,
                         statusText |-> response.statusText, body |-> response.body]
                   ELSE [kind |-> "OpenRouter API error", status |-> response.status,
                         statusText |-> response.statusText, body |-> <<>>]]

RequestCodes == {"", "module A"}
RequestTypes == {"", "token", "pool", "vault", "nft"}

\* the default params of lines 19-44
RouteParameters(type) ==
  CASE type = "token" -> [name |-> "Test Token", symbol |-> "TST", decimals |-> 6, supply |-> 1000000]
    [] type = "pool" -> [assetA |-> "APT", assetB |-> "USDC", fee |-> 3]
    [] OTHER -> [strategy |-> "default", depositAsset |-> "APT"]

\* NextResponse.json(..., { status }) of lines 12-15 and 46-49
BadRequest(req, msg) ==
  [req EXCEPT !.pc = "responded", !.status = 400, !.success = FALSE, !.result = 0, !.error = msg]

\* lines 7-52: the body is read and checked, the simulation is created
Post(code, type) ==
  /\ route.pc \in {"idle", "responded"}
  /\ route.served < MaxRequests
  /\ LET req == [NoRequest EXCEPT !.code = code, !.type = type, !.served = route.served + 1] IN
     IF code = "" \/ type = ""
     THEN /\ route' = BadRequest(req, "Code and type are required")
          /\ UNCHANGED svcVars
     ELSE IF type \notin Types
     THEN /\ route' = BadRequest(req, "Unsupported simulation type")
          /\ UNCHANGED svcVars
     ELSE \E id \in SimIds :
            /\ CreateSimulationUpTo(MaxRequests, id, type, RouteParameters(type))
            /\ route' = [req EXCEPT !.pc = "test", !.id = id]

\* line 55: testCode(simulation.id) is called
PostTest ==
  /\ route.pc = "test"
  /\ TestCodeUpTo(MaxRequests, "a", route.id)
  /\ route' = [route EXCEPT !.pc = "await"]

\* lines 57-73: testCode has settled, the response is sent
PostRespond ==
  /\ route.pc = "await"
  /\ procs["a"].pc = "done"
  /\ IF procs["a"].outcome = "returned"
     THEN route' = [route EXCEPT !.pc = "responded", !.status = 200, !.success = TRUE,
                                 !.result = procs["a"].simulation]
     ELSE route' = [route EXCEPT !.pc = "responded", !.status = 500, !.success = FALSE,
                                 !.error = "Failed to test code"]
  /\ UNCHANGED svcVars

InitRoute ==
  /\ apiKey = TRUE
  /\ InitSvc
  /\ FreezeSend
  /\ FreezeView

NextRoute ==
  \/ \E code \in RequestCodes, type \in RequestTypes :
       Post(code, type) /\ UNCHANGED <<apiKey, sendVars, view, validation>>
  \/ PostTest /\ UNCHANGED <<apiKey, sendVars, view, validation>>
  \/ PostRespond /\ UNCHANGED <<apiKey, sendVars, view, validation>>

SpecRoute == InitRoute /\ [][NextRoute]_vars

\* -------------------------------------------------------------------------
\* C34: a request with a non-empty code and a type among token, pool and
\* vault is answered 200 with success: true and, as result, the simulation
\* that was created and tested, which holds the submitted code; a request
\* with a missing code or type or an unsupported type is answered 400 and
\* creates no simulation.
PostTestsSubmittedCode ==
  route.pc = "responded"
  => IF route.code /= "" /\ route.type \in Types
     THEN /\ route.status = 200
          /\ route.success
          /\ route.result /= 0
          /\ heap[route.result].id = route.id
          /\ heap[route.result].code = route.code
     ELSE /\ route.status = 400
          /\ route.id = ""

\* -------------------------------------------------------------------------
\* C39: the simulation that a request creates is gone once the request has
\* been answered: between requests the registry of the route's service holds
\* no simulation.
RouteSimulationIsTemporary ==
  route.pc \in {"idle", "responded"} => \A id \in SimIds : simulations[id] = 0


\* ---- calls of validateParameters (lines 173-239)
\* the records a caller may hand to validateParameters, field by field
TokenInputs ==
  [name : {"", "Demo"}, symbol : {"", "DMO", "ELEVENCHARS"},
   decimals : {-2, 0, 18, 19}, totalSupply : {"", "0", "1000000", "lots"}]
PoolInputs ==
  [name : {"", "Pool"}, tokenA : {"", "APT"}, tokenB : {"", "APT", "USDC"},
   fee : {-5, 0, 100, 101},
   initialLiquidityA : {"", "0", "500", "lots"}, initialLiquidityB : {"500", "lots"}]
VaultInputs ==
  [name : {"", "Vault"}, token : {"", "APT"}, strategy : {"", "lend"},
   fee : {-5, 0, 100, 101}, minDeposit : {"", "0", "10", "lots"}]

ValidateInputs(type) ==
  CASE type = "token" -> TokenInputs [] type = "pool" -> PoolInputs [] OTHER -> VaultInputs

\* one call validateParameters(type, parameters), from entry to its return
CallValidateParameters(type, parameters) ==
  validation' = [pc |-> "done", type |-> type, parameters |-> parameters,
                 valid |-> ValidateParameters(type, parameters).valid,
                 errors |-> ValidateParameters(type, parameters).errors]

InitValidate == apiKey = TRUE /\ InitSvc /\ FreezeSend /\ view = NoView
                /\ route = NoRequest /\ validation = NoValidation

NextValidate ==
  \E type \in Types : \E parameters \in ValidateInputs(type) :
    CallValidateParameters(type, parameters) /\ UNCHANGED <<apiKey, sendVars, svcVars, view, route>>

SpecValidate == InitValidate /\ [][NextValidate]_vars

\* the texts that are decimal numerals greater than 0
PositiveNumerals == {"10", "500", "1000000"}

\* the rules of each simulation type, as the parameter tables state them
SatisfiesRules(type, q) ==
  CASE type = "token" ->
         /\ q.name /= ""
         /\ Len(q.symbol) \in 1..10
         /\ q.decimals \in 0..18
         /\ q.totalSupply \in PositiveNumerals
    [] type = "pool" ->
         /\ q.name /= ""
         /\ q.tokenA /= "" /\ q.tokenB /= "" /\ q.tokenA /= q.tokenB
         /\ q.fee \in 0..100
         /\ q.initialLiquidityA \in PositiveNumerals
         /\ q.initialLiquidityB \in PositiveNumerals
    [] OTHER ->
         /\ q.name /= "" /\ q.token /= "" /\ q.strategy /= ""
         /\ q.fee \in 0..100
         /\ q.minDeposit \in PositiveNumerals

\* C35: validateParameters(type, p) reports valid = true if and only if p
\* satisfies every rule of its type (amounts being numeric strings greater
\* than 0), and valid is true exactly when the returned errors list is empty.
ValidIffRulesHold ==
  validation.pc = "done" =>
    /\ validation.valid <=> SatisfiesRules(validation.type, validation.parameters)
    /\ validation.valid <=> validation.errors = <<>>

====
